---- MODULE Spec2Model ----
(***************************************************************************)
(* Model of app.py: a Streamlit script that loads a historical trade       *)
(* dataset and three pickled SARIMA models, forecasts bulan_prediksi       *)
(* months ahead on request and renders a table and two charts.             *)
(*                                                                         *)
(* One rerun of the script is one interaction.  The script is modelled     *)
(* top to bottom as a sequence of steps (pc).  Storage (the CSV file and   *)
(* the three .pkl files) is the input; the two Streamlit caches live for   *)
(* the process lifetime.                                                   *)
(*                                                                         *)
(* Dates are first-of-month timestamps, encoded as Tahun * 12 + month - 1, *)
(* so that "one calendar month later" is + 1.                              *)
(***************************************************************************)
EXTENDS Integers, Sequences, FiniteSets

VARIABLES
    storage,         \* path -> file content (the files on disk)
    cache_data,      \* st.cache_data entries of load_historical_data, by path
    cache_resource,  \* st.cache_resource entries of load_model, by path
    reads,           \* path -> number of times the file was opened
    pc,              \* position of the script run
    button,          \* st.sidebar.button('Jalankan Prediksi') in this run
    bulan_prediksi,  \* the slider value in this run
    historical_df,   \* app.py:69
    model_ekspor,    \* app.py:92
    model_impor,     \* app.py:93
    model_neraca,    \* app.py:94
    forecast_df,     \* app.py:105
    screen,          \* the elements displayed by this run, in order
    invoked,         \* load_model / forecast calls made by this run
    uncaught         \* the exception that ended this run, if any

vars == <<storage, cache_data, cache_resource, reads, pc, button,
          bulan_prediksi, historical_df, model_ekspor, model_impor,
          model_neraca, forecast_df, screen, invoked, uncaught>>

(***************************************************************************)
(* Bounds of the model                                                     *)
(***************************************************************************)
MaxRows == 3
MaxReads == 2

(***************************************************************************)
(* Program constants                                                       *)
(***************************************************************************)
min_value == 6
max_value == 36
value == 12
MonthsPerYear == 12
PlotFromYear == 2020
TrainYear == 2025
TrainMonth == 8

CsvPath == "Data_Gabungan_Ekspor_Impor_Tahun2012-2025.csv"
PathEkspor == "model_ekspor_final.pkl"
PathImpor == "model_impor_final.pkl"
PathNeraca == "model_neraca_final.pkl"
ModelPaths == {PathEkspor, PathImpor, PathNeraca}
Paths == {CsvPath} \cup ModelPaths

\* Python's None, pandas' NaT (a missing timestamp) and NaN (a missing number)
None == [kind |-> "None"]
NaT == -1
NaN == -999999

Unset == [kind |-> "unset"]
NotCached == [kind |-> "NotCached"]
NoException == "none"

(***************************************************************************)
(* Dates                                                                   *)
(***************************************************************************)
\* pd.to_datetime({'year': y, 'month': m, 'day': 1}); a NaN month gives NaT
to_datetime(year, month) ==
    IF month = NaN THEN NaT ELSE year * MonthsPerYear + (month - 1)

\* "Model ini dilatih pada data historis hingga Agustus 2025"
TrainCutoff == to_datetime(TrainYear, TrainMonth)

(***************************************************************************)
(* load_historical_data                                                    *)
(***************************************************************************)
MonthNames == <<"Januari", "Februari", "Maret", "April", "Mei", "Juni", "Juli",
                "Agustus", "September", "Oktober", "November", "Desember">>

\* Series.map(month_map): a label that is no key of the dict maps to NaN
month_map(label) ==
    IF \E i \in 1..Len(MonthNames) : MonthNames[i] = label
    THEN CHOOSE i \in 1..Len(MonthNames) : MonthNames[i] = label
    ELSE NaN

\* df['Neraca_Perdagangan'] = df['Total_Ekspor'] - df['Total_Impor']
NeracaMutant(row) == row.Total_Ekspor + row.Total_Impor
Neraca_Perdagangan(row) == row.Total_Ekspor - row.Total_Impor

\* one row of df_processed: the index Tanggal and the three target columns
ProcessRow(row) ==
    [Tanggal |-> to_datetime(row.Tahun, month_map(row.Bulan)),
     Total_Ekspor |-> row.Total_Ekspor,
     Total_Impor |-> row.Total_Impor,
     Neraca_Perdagangan |-> Neraca_Perdagangan(row)]

\* sort order of the index: ascending, NaT last (na_position='last')
Precedes(a, b) == a # NaT /\ (b = NaT \/ a < b)

RECURSIVE InsertSorted(_, _)
InsertSorted(sorted, r) ==
    IF sorted = <<>> THEN <<r>>
    ELSE IF Precedes(r.Tanggal, Head(sorted).Tanggal) THEN <<r>> \o sorted
    ELSE <<Head(sorted)>> \o InsertSorted(Tail(sorted), r)

RECURSIVE SortRows(_)
SortRows(rows) ==
    IF rows = <<>> THEN <<>>
    ELSE InsertSorted(SortRows(SubSeq(rows, 1, Len(rows) - 1)), rows[Len(rows)])

\* df_processed.sort_index(inplace=True): rows with equal keys keep their order
sort_indexMutant(rows) == rows
sort_index(rows) == SortRows(rows)

DataFrame(rows) == [kind |-> "DataFrame", rows |-> rows]

\* Python exception classes raised by the loaders' try bodies; all of them are
\* subclasses of Exception
ExceptionClasses == {"FileNotFoundError", "ParserError", "KeyError",
                     "UnpicklingError"}

\* does the clause `except <handler>` catch an exception of class exc
Catches(handler, exc) ==
    \/ handler = exc
    \/ handler = "Exception" /\ exc \in ExceptionClasses

Caught(handlers, exc) == \E i \in 1..Len(handlers) : Catches(handlers[i], exc)
FirstHandler(handlers, exc) ==
    handlers[CHOOSE i \in 1..Len(handlers) :
                /\ Catches(handlers[i], exc)
                /\ \A j \in 1..(i - 1) : ~Catches(handlers[j], exc)]

\* the except clauses of load_historical_data, in order
load_historical_data_handlers == <<"FileNotFoundError", "Exception">>

\* the try body of load_historical_data: what it returns or raises
HistoricalTry(file) ==
    CASE file.kind = "missing" -> [exc |-> "FileNotFoundError", value |-> None]
      [] file.kind = "malformed" -> [exc |-> "ParserError", value |-> None]
      [] file.kind = "nocolumn" -> [exc |-> "KeyError", value |-> None]
      [] OTHER ->
           [exc |-> NoException,
            value |-> DataFrame(sort_index([i \in 1..Len(file.rows) |->
                                               ProcessRow(file.rows[i])]))]

\* a loader: the try body's outcome through the except clauses; the result is
\* the returned value, the st.error messages shown, and the exception raised
Loader(fn, path, handlers, outcome) ==
    IF outcome.exc = NoException
    THEN [value |-> outcome.value, msgs |-> <<>>, raised |-> NoException]
    ELSE IF Caught(handlers, outcome.exc)
    THEN [value |-> None,
          msgs |-> <<<<"error", fn, FirstHandler(handlers, outcome.exc), path>>>>,
          raised |-> NoException]
    ELSE [value |-> None, msgs |-> <<>>, raised |-> outcome.exc]

load_historical_data(path_csv, file) ==
    Loader("load_historical_data", path_csv, load_historical_data_handlers,
           HistoricalTry(file))

(***************************************************************************)
(* load_model                                                              *)
(***************************************************************************)
ModelTry(file) ==
    CASE file.kind = "missing" -> [exc |-> "FileNotFoundError", value |-> None]
      [] file.kind = "corrupt" -> [exc |-> "UnpicklingError", value |-> None]
      [] OTHER -> [exc |-> NoException, value |-> file.obj]

\* the except clauses of load_model, in order
load_model_handlersMutant == <<"FileNotFoundError">>
load_model_handlers == <<"FileNotFoundError", "Exception">>

load_model(path, file) ==
    Loader("load_model", path, load_model_handlers, ModelTry(file))

(***************************************************************************)
(* st.cache_data / st.cache_resource: the result of a call is stored under *)
(* its argument, together with the elements the call displayed; a hit      *)
(* returns the stored value and replays the stored elements.  A call that  *)
(* raises stores nothing.                                                  *)
(***************************************************************************)
HitMutant(entry) == entry.kind = "cached" /\ entry.value # None
Hit(entry) == entry.kind = "cached"

ReplayMutant(entry) == <<>>
Replay(entry) == entry.msgs

\* a cached call: the result seen by the caller, the entry left in the cache,
\* and whether storage was read
CachedCall(entry, result) ==
    IF Hit(entry)
    THEN [value |-> entry.value, msgs |-> Replay(entry),
          raised |-> NoException, entry |-> entry, read |-> 0]
    ELSE [value |-> result.value, msgs |-> result.msgs,
          raised |-> result.raised,
          entry |-> IF result.raised = NoException
                    THEN [kind |-> "cached", value |-> result.value,
                          msgs |-> result.msgs]
                    ELSE entry,
          read |-> 1]

(***************************************************************************)
(* The pickled objects and their forecast                                  *)
(***************************************************************************)
\* a fitted SARIMA results object: its training data end at `cutoff`
Model(cutoff, level) ==
    [kind |-> "SARIMAXResults", cutoff |-> cutoff, level |-> level]
\* an object that unpickles but whose forecast() raises (no such method, or an
\* incompatible statsmodels version)
BrokenObj == [kind |-> "broken"]
\* an object that unpickles and is falsy (an empty container)
FalsyObj == [kind |-> "falsy"]

\* bool(obj), as `if model_ekspor and model_impor and model_neraca` takes it
Truthy(obj) == obj.kind \notin {"None", "falsy"}

\* model.forecast(steps=h): a Series of h values indexed by the h months that
\* follow the model's training cutoff, or an exception
forecast(model, steps) ==
    IF model.kind = "SARIMAXResults"
    THEN [exc |-> NoException,
          value |-> [i \in 1..steps |->
                        [Tanggal |-> model.cutoff + i, val |-> model.level]]]
    ELSE [exc |-> "AttributeError", value |-> <<>>]

IndexOf(series) == {series[i].Tanggal : i \in 1..Len(series)}
At(series, t) ==
    IF t \in IndexOf(series)
    THEN series[CHOOSE i \in 1..Len(series) : series[i].Tanggal = t].val
    ELSE NaN

RECURSIVE Ascending(_)
Ascending(S) ==
    IF S = {} THEN <<>>
    ELSE LET m == CHOOSE x \in S : \A y \in S : x <= y
         IN <<m>> \o Ascending(S \ {m})

\* pd.DataFrame({...}) of three Series: the rows are the sorted union of the
\* three indexes, a column is NaN where its Series has no value
BuildForecastDf(pred_ekspor, pred_impor, pred_neraca) ==
    LET index == Ascending(IndexOf(pred_ekspor) \cup IndexOf(pred_impor)
                           \cup IndexOf(pred_neraca))
    IN DataFrame([i \in 1..Len(index) |->
            [Tanggal |-> index[i],
             Total_Ekspor_Prediksi |-> At(pred_ekspor, index[i]),
             Total_Impor_Prediksi |-> At(pred_impor, index[i]),
             Neraca_Perdagangan_Prediksi |-> At(pred_neraca, index[i])]])

\* historical_df['2020':]
PlotFrom == to_datetime(PlotFromYear, 1)
IsRecent(r) == r.Tanggal >= PlotFrom
history_to_plot(df) == SelectSeq(df.rows, IsRecent)

(***************************************************************************)
(* The script                                                              *)
(***************************************************************************)
\* `if historical_df is not None`
HistoricalPresentMutant(df) == TRUE
HistoricalPresent(df) == df # None

\* `if model_ekspor and model_impor and model_neraca`
AllModelsLoadedMutant(me, mi, mn) == Truthy(me) /\ Truthy(mi)
AllModelsLoaded(me, mi, mn) == Truthy(me) /\ Truthy(mi) /\ Truthy(mn)

\* the run-local state at the top of a rerun
FreshRun ==
    /\ pc' = "load_data"
    /\ historical_df' = Unset
    /\ model_ekspor' = Unset
    /\ model_impor' = Unset
    /\ model_neraca' = Unset
    /\ forecast_df' = Unset
    /\ screen' = <<>>
    /\ invoked' = {}
    /\ uncaught' = NoException

\* an uncaught exception ends the run; Streamlit displays it
Crash(exc, shown) ==
    /\ uncaught' = exc
    /\ screen' = shown \o <<<<"exception", exc>>>>
    /\ pc' = "done"

\* the user moves the slider: the script reruns, the button reads False
MoveSlider(h) ==
    /\ pc = "done"
    /\ h # bulan_prediksi
    /\ bulan_prediksi' = h
    /\ button' = FALSE
    /\ FreshRun
    /\ UNCHANGED <<storage, cache_data, cache_resource, reads>>

\* the user clicks 'Jalankan Prediksi': the script reruns, the button reads True
PressButton ==
    /\ pc = "done"
    /\ button' = TRUE
    /\ FreshRun
    /\ UNCHANGED <<storage, cache_data, cache_resource, reads, bulan_prediksi>>

\* app.py:69  historical_df = load_historical_data(...)
LoadHistoricalData ==
    /\ pc = "load_data"
    /\ LET call == CachedCall(cache_data[CsvPath],
                              load_historical_data(CsvPath, storage[CsvPath]))
       IN /\ reads[CsvPath] + call.read <= MaxReads
          /\ cache_data' = [cache_data EXCEPT ![CsvPath] = call.entry]
          /\ reads' = [reads EXCEPT ![CsvPath] = @ + call.read]
          /\ IF call.raised # NoException
             THEN /\ Crash(call.raised, screen)
                  /\ UNCHANGED historical_df
             ELSE /\ historical_df' = call.value
                  /\ screen' = screen \o call.msgs
                  /\ pc' = "button"
                  /\ UNCHANGED uncaught
    /\ UNCHANGED <<storage, cache_resource, button, bulan_prediksi, model_ekspor,
                   model_impor, model_neraca, forecast_df, invoked>>

\* app.py:86-89  the button was pressed
TriggerBranch ==
    /\ pc = "button"
    /\ button
    /\ pc' = IF HistoricalPresent(historical_df) THEN "load_ekspor" ELSE "done"
    /\ UNCHANGED <<storage, cache_data, cache_resource, reads, button,
                   bulan_prediksi, historical_df, model_ekspor, model_impor,
                   model_neraca, forecast_df, screen, invoked, uncaught>>

\* app.py:163-168  the button was not pressed
ElseBranch ==
    /\ pc = "button"
    /\ ~button
    /\ screen' = screen \o
          (IF historical_df = None
           THEN <<<<"error", "Gagal memuat data historis", CsvPath>>>>
           ELSE <<<<"info", "Silakan klik tombol Jalankan Prediksi">>>>)
    /\ pc' = "done"
    /\ UNCHANGED <<storage, cache_data, cache_resource, reads, button,
                   bulan_prediksi, historical_df, model_ekspor, model_impor,
                   model_neraca, forecast_df, invoked, uncaught>>

\* one `load_model(path)` call through st.cache_resource
ModelCall(path) == CachedCall(cache_resource[path], load_model(path, storage[path]))

\* one of the three assignments `model_x = load_model(path)` of app.py:92-94:
\* the cached call, the elements it displays, and the script's next position
LoadModelStep(path, nextpc) ==
    LET call == ModelCall(path)
    IN /\ reads[path] + call.read <= MaxReads
       /\ cache_resource' = [cache_resource EXCEPT ![path] = call.entry]
       /\ reads' = [reads EXCEPT ![path] = @ + call.read]
       /\ invoked' = invoked \cup {<<"load_model", path>>}
       /\ IF call.raised = NoException
          THEN /\ screen' = screen \o call.msgs
               /\ pc' = nextpc
               /\ UNCHANGED uncaught
          ELSE Crash(call.raised, screen)

\* the value the assignment binds; a call that raises binds nothing
Loaded(path) ==
    IF ModelCall(path).raised = NoException THEN ModelCall(path).value ELSE Unset

\* app.py:92  model_ekspor = load_model('model_ekspor_final.pkl')
LoadModelEkspor ==
    /\ pc = "load_ekspor"
    /\ LoadModelStep(PathEkspor, "load_impor")
    /\ model_ekspor' = Loaded(PathEkspor)
    /\ UNCHANGED <<storage, cache_data, button, bulan_prediksi, historical_df,
                   model_impor, model_neraca, forecast_df>>

\* app.py:93  model_impor = load_model('model_impor_final.pkl')
LoadModelImpor ==
    /\ pc = "load_impor"
    /\ LoadModelStep(PathImpor, "load_neraca")
    /\ model_impor' = Loaded(PathImpor)
    /\ UNCHANGED <<storage, cache_data, button, bulan_prediksi, historical_df,
                   model_ekspor, model_neraca, forecast_df>>

\* app.py:94  model_neraca = load_model('model_neraca_final.pkl')
LoadModelNeraca ==
    /\ pc = "load_neraca"
    /\ LoadModelStep(PathNeraca, "check_models")
    /\ model_neraca' = Loaded(PathNeraca)
    /\ UNCHANGED <<storage, cache_data, button, bulan_prediksi, historical_df,
                   model_ekspor, model_impor, forecast_df>>

\* app.py:96-97
CheckModels ==
    /\ pc = "check_models"
    /\ IF AllModelsLoaded(model_ekspor, model_impor, model_neraca)
       THEN /\ screen' = screen \o <<<<"success", "Ketiga model berhasil dimuat!">>>>
            /\ pc' = "forecast"
       ELSE /\ pc' = "done"
            /\ UNCHANGED screen
    /\ UNCHANGED <<storage, cache_data, cache_resource, reads, button,
                   bulan_prediksi, historical_df, model_ekspor, model_impor,
                   model_neraca, forecast_df, invoked, uncaught>>

\* may the table be assembled once the three forecast calls were attempted
ForecastCompleteMutant(fe, fi, fn) == fe.exc = NoException
ForecastComplete(fe, fi, fn) ==
    fe.exc = NoException /\ fi.exc = NoException /\ fn.exc = NoException

\* app.py:100-112  the three forecast calls in order, forecast_df, and the
\* success message; a call that raises ends the run
Forecast ==
    /\ pc = "forecast"
    /\ LET fe == forecast(model_ekspor, bulan_prediksi)
           fi == forecast(model_impor, bulan_prediksi)
           fn == forecast(model_neraca, bulan_prediksi)
           okE == fe.exc = NoException
           okI == okE /\ fi.exc = NoException
       IN /\ invoked' = invoked \cup {<<"forecast", PathEkspor>>}
                \cup (IF okE THEN {<<"forecast", PathImpor>>} ELSE {})
                \cup (IF okI THEN {<<"forecast", PathNeraca>>} ELSE {})
          /\ IF ForecastComplete(fe, fi, fn)
             THEN /\ forecast_df' = BuildForecastDf(fe.value, fi.value, fn.value)
                  /\ screen' = screen \o <<<<"success", "Prediksi selesai!">>>>
                  /\ pc' = "render"
                  /\ UNCHANGED uncaught
             ELSE /\ Crash(IF ~okE THEN fe.exc
                           ELSE IF ~okI THEN fi.exc ELSE fn.exc, screen)
                  /\ UNCHANGED forecast_df
    /\ UNCHANGED <<storage, cache_data, cache_resource, reads, button,
                   bulan_prediksi, historical_df, model_ekspor, model_impor,
                   model_neraca>>

\* app.py:115-161  the table and the two charts
Render ==
    /\ pc = "render"
    /\ IF historical_df = None
       THEN Crash("TypeError", screen \o <<<<"dataframe", Len(forecast_df.rows)>>>>)
       ELSE /\ screen' = screen \o
                  <<<<"dataframe", Len(forecast_df.rows)>>,
                    <<"plotly_chart", "fig1", Len(history_to_plot(historical_df)),
                      Len(forecast_df.rows)>>,
                    <<"plotly_chart", "fig2", Len(history_to_plot(historical_df)),
                      Len(forecast_df.rows)>>>>
            /\ pc' = "done"
            /\ UNCHANGED uncaught
    /\ UNCHANGED <<storage, cache_data, cache_resource, reads, button,
                   bulan_prediksi, historical_df, model_ekspor, model_impor,
                   model_neraca, forecast_df, invoked>>

(***************************************************************************)
(* The environment                                                         *)
(***************************************************************************)
Row(y, b, e, i) == [Tahun |-> y, Bulan |-> b, Total_Ekspor |-> e, Total_Impor |-> i]
CsvFile(rows) == [kind |-> "csv", rows |-> rows]
Pickle(obj) == [kind |-> "pickle", obj |-> obj]
Missing == [kind |-> "missing"]

\* a dataset that ends at the training cutoff, stored out of order, and one
\* that already holds the month after it
DataToCutoff == <<Row(TrainYear, "Agustus", 1500, 1200), Row(TrainYear, "Juli", 1400, 1450)>>
DataPastCutoff == <<Row(TrainYear, "Agustus", 1500, 1200), Row(TrainYear, "September", 1300, 1250)>>

CsvFiles == {Missing, [kind |-> "malformed"], CsvFile(DataToCutoff),
             CsvFile(DataPastCutoff)}

Cutoffs == {TrainCutoff, TrainCutoff - 1}
Levels == {1, 2}
PickleFiles ==
    {Missing, [kind |-> "corrupt"], Pickle(FalsyObj), Pickle(BrokenObj)}
    \cup {Pickle(Model(c, l)) : c \in Cutoffs, l \in Levels}

Horizons == min_value..max_value

\* the state of a fresh process on its first script run
FirstRun ==
    /\ cache_data = [p \in {CsvPath} |-> NotCached]
    /\ cache_resource = [p \in ModelPaths |-> NotCached]
    /\ reads = [p \in Paths |-> 0]
    /\ pc = "load_data"
    /\ button = FALSE
    /\ bulan_prediksi = value
    /\ historical_df = Unset
    /\ model_ekspor = Unset
    /\ model_impor = Unset
    /\ model_neraca = Unset
    /\ forecast_df = Unset
    /\ screen = <<>>
    /\ invoked = {}
    /\ uncaught = NoException

Init ==
    /\ storage \in [Paths -> CsvFiles \cup PickleFiles]
    /\ storage[CsvPath] \in CsvFiles
    /\ \A p \in ModelPaths : storage[p] \in PickleFiles
    /\ FirstRun

Next ==
    \/ \E h \in Horizons : MoveSlider(h)
    \/ PressButton
    \/ LoadHistoricalData
    \/ TriggerBranch
    \/ ElseBranch
    \/ LoadModelEkspor
    \/ LoadModelImpor
    \/ LoadModelNeraca
    \/ CheckModels
    \/ Forecast
    \/ Render

Spec == Init /\ [][Next]_vars

(***************************************************************************)
(* The loader alone, on every small dataset                                *)
(***************************************************************************)
LoadRows ==
    {Row(y, b, e, 1200) : y \in {2020, 2021}, b \in {"Maret", "Desember", "Maart"},
                          e \in {1500, 1100}}

RowSeqs(S, n) == UNION {[1..k -> S] : k \in 1..n}

GoodStorage(csv) ==
    [p \in Paths |->
        IF p = CsvPath THEN csv ELSE Pickle(Model(TrainCutoff, 1))]

InitLoad ==
    /\ \E csv \in {Missing, [kind |-> "malformed"], [kind |-> "nocolumn"]}
                  \cup {CsvFile(rows) : rows \in RowSeqs(LoadRows, MaxRows)} :
          storage = GoodStorage(csv)
    /\ FirstRun

NextLoad == LoadHistoricalData

SpecLoad == InitLoad /\ [][NextLoad]_vars

(***************************************************************************)
(* The whole run on valid datasets and loadable models                     *)
(***************************************************************************)
MaxTradeRows == 2

TradeRows ==
    {Row(y, b, e, 1200) : y \in {2019, TrainYear}, b \in {"Agustus", "September"},
                          e \in {1500, 1100}}

InitTrade ==
    /\ \E rows \in RowSeqs(TradeRows, MaxTradeRows), c \in Cutoffs, l \in Levels :
          storage = [p \in Paths |->
                        IF p = CsvPath THEN CsvFile(rows)
                        ELSE IF p = PathEkspor THEN Pickle(Model(TrainCutoff, 2))
                        ELSE IF p = PathImpor THEN Pickle(Model(TrainCutoff, 1))
                        ELSE Pickle(Model(c, l))]
    /\ FirstRun

SpecTrade == InitTrade /\ [][Next]_vars

(***************************************************************************)
(* Storage that changes under a running process, and restarts              *)
(***************************************************************************)
GoodFile(p) ==
    IF p = CsvPath THEN CsvFile(DataToCutoff) ELSE Pickle(Model(TrainCutoff, 1))

\* a file is deleted, or put (back) in place, at any moment of a run or
\* between two runs
StorageChange(p) ==
    /\ storage' = [storage EXCEPT ![p] = IF @ = Missing THEN GoodFile(p) ELSE Missing]
    /\ UNCHANGED <<cache_data, cache_resource, reads, pc, button, bulan_prediksi,
                   historical_df, model_ekspor, model_impor, model_neraca,
                   forecast_df, screen, invoked, uncaught>>

\* the process is restarted: both caches are empty and the script runs anew
Restart ==
    /\ pc = "done"
    /\ cache_data' = [p \in {CsvPath} |-> NotCached]
    /\ cache_resource' = [p \in ModelPaths |-> NotCached]
    /\ reads' = [p \in Paths |-> 0]
    /\ button' = FALSE
    /\ bulan_prediksi' = value
    /\ FreshRun
    /\ UNCHANGED storage

InitEnv ==
    /\ storage \in [Paths -> {Missing} \cup {GoodFile(p) : p \in Paths}]
    /\ \A p \in Paths : storage[p] \in {Missing, GoodFile(p)}
    /\ FirstRun

NextEnv ==
    \/ Next
    \/ \E p \in Paths : StorageChange(p)
    \/ Restart

SpecEnv == InitEnv /\ [][NextEnv]_vars

(***************************************************************************)
(* Properties                                                              *)
(***************************************************************************)
Shown(kind) == \E i \in 1..Len(screen) : screen[i][1] = kind
ShownText(kind, text) ==
    \E i \in 1..Len(screen) : screen[i][1] = kind /\ screen[i][2] = text
ForecastInvoked == \E p \in ModelPaths : <<"forecast", p>> \in invoked
LoadInvoked == \E p \in ModelPaths : <<"load_model", p>> \in invoked
ResultRendered == Shown("dataframe") \/ Shown("plotly_chart")
IsFrame(df) == df.kind = "DataFrame"
ModelVars == <<model_ekspor, model_impor, model_neraca>>

\* C1: once a triggered run has found one of the three models absent (its
\* load failed), no forecast is invoked, no ForecastResult exists, no success
\* message, table or chart is displayed, the run does not crash, and the
\* loader's error message is on the screen.
C1_NoForecastWithoutAllModels ==
    (\E i \in 1..3 : ModelVars[i] = None) =>
        /\ ~ForecastInvoked
        /\ forecast_df = Unset
        /\ ~ResultRendered
        /\ ~Shown("success")
        /\ ShownText("error", "load_model")
        /\ uncaught = NoException

C1_Witness ==
    /\ pc = "done"
    /\ button
    /\ Truthy(model_ekspor)
    /\ Truthy(model_impor)
    /\ model_neraca = None

\* C2: with the dataset file missing, the series is absent after loading and
\* the loader's error is displayed; a finished run in which the trigger was
\* pressed has not crashed and shows a message.
C2_MissingDatasetShowsMessage ==
    (storage[CsvPath] = Missing /\ pc # "load_data") =>
        /\ historical_df = None
        /\ uncaught = NoException
        /\ (pc = "done" /\ button => Shown("error"))

C2_Witness ==
    /\ storage[CsvPath] = Missing
    /\ pc = "done"
    /\ button
    /\ historical_df = None
    /\ cache_data[CsvPath].kind = "cached"

\* C8: no exception raised while loading leaves a loader: a run never ends
\* with a loader's exception, and a file that cannot be loaded gives None and
\* a displayed error message.
Unloadable(file) == file.kind \in {"missing", "malformed", "nocolumn", "corrupt"}
C8_LoadersCatchEverything ==
    /\ uncaught \notin ExceptionClasses
    /\ (pc # "load_data" /\ Unloadable(storage[CsvPath])) =>
          historical_df = None /\ ShownText("error", "load_historical_data")
    /\ (pc \in {"check_models", "done"} /\ LoadInvoked) =>
          /\ \A i \in 1..3 : ModelVars[i] # Unset
          /\ Unloadable(storage[PathEkspor]) => model_ekspor = None
          /\ Unloadable(storage[PathImpor]) => model_impor = None
          /\ Unloadable(storage[PathNeraca]) => model_neraca = None
          /\ (\E p \in ModelPaths : Unloadable(storage[p])) =>
                ShownText("error", "load_model")

C8_Witness ==
    /\ pc = "done"
    /\ storage[PathEkspor].kind = "corrupt"
    /\ storage[PathImpor].kind = "missing"
    /\ model_ekspor = None
    /\ model_impor = None
    /\ uncaught = NoException

\* C10: models are loaded and forecasts invoked only in a run whose trigger
\* was pressed and whose series is present; a finished run without the
\* trigger loaded nothing, forecast nothing, rendered nothing, and shows the
\* idle guidance (series present) or the dataset error (series absent).
C10_WorkOnlyOnTrigger ==
    /\ (LoadInvoked \/ ForecastInvoked \/ pc \in {"load_ekspor", "load_impor",
                                                  "load_neraca", "check_models",
                                                  "forecast", "render"}) =>
          button /\ IsFrame(historical_df)
    /\ (pc = "done" /\ ~button) =>
          /\ invoked = {}
          /\ forecast_df = Unset
          /\ ~ResultRendered
          /\ \A i \in 1..3 : ModelVars[i] = Unset
          /\ IsFrame(historical_df) => Shown("info") /\ ~Shown("error")
          /\ historical_df = None =>
                ShownText("error", "Gagal memuat data historis") /\ ~Shown("info")

C10_Witness ==
    /\ pc = "done"
    /\ ~button
    /\ bulan_prediksi # value
    /\ IsFrame(historical_df)
    /\ Shown("info")
    /\ cache_resource[PathEkspor] = NotCached

BrokenLoaded == \E i \in 1..3 : ModelVars[i] = BrokenObj
ForecastAttempted == <<"forecast", PathEkspor>> \in invoked

\* C7 as stated: when one of the three forecast calls fails, the run ends
\* with the error shown and nothing else of the run is displayed: no success
\* message, no table, no chart, no partial result.
C7_Original ==
    (ForecastAttempted /\ BrokenLoaded) =>
        /\ pc = "done"
        /\ Shown("exception")
        /\ forecast_df = Unset
        /\ ~ResultRendered
        /\ ~Shown("success")

\* C7 amended: when one of the three forecast calls fails, the run ends with
\* the exception shown; no ForecastResult, table, chart or 'Prediksi selesai'
\* message exists, and the only output of the run is the 'Ketiga model
\* berhasil dimuat!' message displayed before the forecast began.
C7_FailedForecastShowsNoResult ==
    (ForecastAttempted /\ BrokenLoaded) =>
        /\ pc = "done"
        /\ uncaught = "AttributeError"
        /\ screen = <<<<"success", "Ketiga model berhasil dimuat!">>,
                      <<"exception", "AttributeError">>>>
        /\ forecast_df = Unset
        /\ ~ResultRendered
        /\ ~ShownText("success", "Prediksi selesai!")

C7_Witness ==
    /\ pc = "done"
    /\ model_ekspor.kind = "SARIMAXResults"
    /\ model_impor.kind = "SARIMAXResults"
    /\ model_neraca = BrokenObj
    /\ uncaught = "AttributeError"
    /\ invoked = {<<"load_model", p>> : p \in ModelPaths}
                    \cup {<<"forecast", p>> : p \in ModelPaths}

\* arithmetic and equality of floats with NaN
Minus(a, b) == IF a = NaN \/ b = NaN THEN NaN ELSE a - b
FloatEq(a, b) == a # NaN /\ b # NaN /\ a = b

HistoricalBalanced ==
    IsFrame(historical_df) =>
        \A i \in 1..Len(historical_df.rows) :
            LET r == historical_df.rows[i]
            IN FloatEq(r.Neraca_Perdagangan, Minus(r.Total_Ekspor, r.Total_Impor))

\* C5 as stated: balance = exports - imports for every record of the
\* HistoricalSeries and for every record of the ForecastResult.
C5_Original ==
    /\ HistoricalBalanced
    /\ IsFrame(forecast_df) =>
          \A i \in 1..Len(forecast_df.rows) :
              LET r == forecast_df.rows[i]
              IN FloatEq(r.Neraca_Perdagangan_Prediksi,
                         Minus(r.Total_Ekspor_Prediksi, r.Total_Impor_Prediksi))

\* C5 amended: balance = exports - imports for every record of the
\* HistoricalSeries; in the ForecastResult each column is the forecast of its
\* own model (the balance column is the balance model's forecast, not the
\* difference of the other two columns).
C5_BalanceHistoricalOnly ==
    /\ HistoricalBalanced
    /\ IsFrame(forecast_df) =>
          \A i \in 1..Len(forecast_df.rows) :
              LET r == forecast_df.rows[i]
                  own(m) == At(forecast(m, bulan_prediksi).value, r.Tanggal)
              IN /\ r.Total_Ekspor_Prediksi = own(model_ekspor)
                 /\ r.Total_Impor_Prediksi = own(model_impor)
                 /\ r.Neraca_Perdagangan_Prediksi = own(model_neraca)

C5_Witness ==
    /\ pc = "done"
    /\ IsFrame(historical_df)
    /\ Len(historical_df.rows) = MaxTradeRows
    /\ IsFrame(forecast_df)
    /\ \E i \in 1..Len(forecast_df.rows) :
          LET r == forecast_df.rows[i]
          IN /\ r.Neraca_Perdagangan_Prediksi # NaN
             /\ r.Total_Ekspor_Prediksi # NaN
             /\ r.Neraca_Perdagangan_Prediksi #
                   r.Total_Ekspor_Prediksi - r.Total_Impor_Prediksi

\* C6: the ForecastResult of a successful run has exactly bulan_prediksi
\* records, the first one month after the last record of the HistoricalSeries
\* and each later one a month after the previous.
C6_Original ==
    (pc = "done" /\ IsFrame(forecast_df) /\ ResultRendered) =>
        LET f == forecast_df.rows
            h == historical_df.rows
        IN /\ Len(f) = bulan_prediksi
           /\ f[1].Tanggal = h[Len(h)].Tanggal + 1
           /\ \A i \in 1..(Len(f) - 1) : f[i + 1].Tanggal = f[i].Tanggal + 1

\* the dataset on disk, as rows
Accepted == storage[CsvPath].kind = "csv" /\ IsFrame(historical_df)
InputRows == storage[CsvPath].rows
KnownLabel(b) == \E i \in 1..Len(MonthNames) : MonthNames[i] = b
AllLabelsKnown == \A i \in 1..Len(InputRows) : KnownLabel(InputRows[i].Bulan)
SharedMonth ==
    \E i, j \in 1..Len(InputRows) :
        /\ i # j
        /\ InputRows[i].Tahun = InputRows[j].Tahun
        /\ InputRows[i].Bulan = InputRows[j].Bulan
StrictlyIncreasing(rows) ==
    \A i \in 1..(Len(rows) - 1) :
        /\ rows[i].Tanggal # NaT
        /\ rows[i + 1].Tanggal # NaT
        /\ rows[i].Tanggal < rows[i + 1].Tanggal

\* C3 as stated: for every accepted dataset, in any row order, the returned
\* timestamps are strictly increasing and unique, also when two input rows
\* share year and month (checked here on datasets whose labels are all valid).
C3_Original ==
    (Accepted /\ AllLabelsKnown) => StrictlyIncreasing(historical_df.rows)

\* C3 amended: for every accepted dataset, in any row order, the returned
\* series holds every input row once, with timestamps in non-decreasing order
\* and missing timestamps last; when all month labels are valid, the
\* timestamps are strictly increasing and unique exactly when no two input
\* rows share year and month.
C3_SortedNotDeduplicated ==
    Accepted =>
        LET rows == historical_df.rows
        IN /\ Len(rows) = Len(InputRows)
           /\ \A i \in 1..(Len(rows) - 1) :
                 ~Precedes(rows[i + 1].Tanggal, rows[i].Tanggal)
           /\ AllLabelsKnown => (StrictlyIncreasing(rows) <=> ~SharedMonth)

C3_Witness ==
    /\ Accepted
    /\ AllLabelsKnown
    /\ Len(InputRows) = MaxRows
    /\ to_datetime(InputRows[1].Tahun, month_map(InputRows[1].Bulan))
          > to_datetime(InputRows[2].Tahun, month_map(InputRows[2].Bulan))
    /\ \E i \in 1..(Len(historical_df.rows) - 1) :
          historical_df.rows[i].Tanggal = historical_df.rows[i + 1].Tanggal

\* C4: a dataset with a month label outside the twelve names is not loaded:
\* the loader reports an error and returns no series.
C4_Original ==
    (pc = "button" /\ storage[CsvPath].kind = "csv" /\ ~AllLabelsKnown) =>
        historical_df = None /\ ShownText("error", "load_historical_data")

Entry(p) == IF p = CsvPath THEN cache_data[p] ELSE cache_resource[p]

\* C9: within one process lifetime each loader reads a path at most once; a
\* path's cached result, a failed one (None) included, never changes and is
\* what every later call returns, whatever happens to the file meanwhile.
C9_LoadedOncePerPath ==
    [][Restart \/
       /\ \A p \in Paths :
             /\ reads'[p] <= 1
             /\ Entry(p) # NotCached =>
                   /\ Entry(p)' = Entry(p)
                   /\ reads'[p] = reads[p]
       /\ (pc = "load_data" /\ pc' # pc /\ cache_data[CsvPath] # NotCached) =>
             historical_df' = cache_data[CsvPath].value
       /\ (pc = "load_ekspor" /\ pc' # pc /\ cache_resource[PathEkspor] # NotCached) =>
             model_ekspor' = cache_resource[PathEkspor].value
       /\ (pc = "load_impor" /\ pc' # pc /\ cache_resource[PathImpor] # NotCached) =>
             model_impor' = cache_resource[PathImpor].value
       /\ (pc = "load_neraca" /\ pc' # pc /\ cache_resource[PathNeraca] # NotCached) =>
             model_neraca' = cache_resource[PathNeraca].value]_vars

C9_Witness ==
    /\ pc = "done"
    /\ button
    /\ storage[PathImpor] = GoodFile(PathImpor)
    /\ cache_resource[PathImpor].kind = "cached"
    /\ cache_resource[PathImpor].value = None
    /\ model_impor = None
    /\ reads[PathImpor] = 1
    /\ storage[CsvPath] = Missing
    /\ IsFrame(historical_df)

====
